---- MODULE Spec2Model ----
(***************************************************************************)
(* Model of the resilient paginated crawler of openidb/sabeel:             *)
(* shamela-scraper/scripts/crawl_specific_books.py (SpecificBooksCrawler). *)
(*                                                                         *)
(*   Spec      one document's crawl_book walk, run up to MaxRuns times     *)
(*             over the same store                                         *)
(*   SpecPool  crawl_books_from_file: the thread pool and its tally        *)
(*   SpecRate  _rate_limit / _fetch_url of the workers over discrete time  *)
(*   SpecNext  the choice of the next control on one fetched page          *)
(*                                                                         *)
(* and of shamela-scraper/scripts/shamela/utils.py (ShamelaHTTPClient):    *)
(*                                                                         *)
(*   SpecGet   the get calls of one client, with its delay and backoff     *)
(*   SpecFetch either fetcher: the crawler's _fetch_url, or a client's get *)
(***************************************************************************)
EXTENDS Integers, Sequences, FiniteSets, TLC

\* ------------------------------------------------------------------ bounds
\* Highest section index the remote site may serve; higher indices are absent.
MaxSec == 3
\* Number of successive crawl_book runs of the document over one store.
MaxRuns == 2

\* ------------------------------------------------------- program constants
\* max_consecutive_failures = 5
max_consecutive_failures == 5
\* the body-size threshold of `len(html) < 500` and `len(test_html) > 500`
MinBody == 500

\* ------------------------------------------------------------- the remote
\* A URL of the document is modelled by its section index (a positive
\* integer, the SectionIndex of base_url/book/{id}/{n}); NoUrl is Python's
\* None for current_url.
NoUrl == 0 - 1
\* What _fetch_url returns: None (retries exhausted), or a text of some length.
NoneBody == 0 - 1
\* Body lengths of the sections up to MaxSec: below, at and above the
\* threshold. (None and a short body take the same branch of every test of
\* crawl_book; None is what the sections above MaxSec return.)
BodyLens == {MinBody - 1, MinBody, MinBody + 1}
\* The "next" control of a page: absent, or an href to a section.
NoNext == 0
Targets == 1..(MaxSec + 1)
Pages ==
    [len : BodyLens, next : {NoNext} \cup Targets]
AbsentPage == [len |-> NoneBody, next |-> NoNext]
\* A page whose body the walk never parses carries no observable next control.
RemotePages ==
    {p \in Pages : (p.len = NoneBody \/ p.len < MinBody) => p.next = NoNext}

VARIABLES
    remote,                \* section -> page the site serves, as far as it has been requested
    toc,                   \* the table-of-contents page, once it has been fetched
    store,                 \* sections whose page artifact exists in book_dir
    record,                \* the persisted book_{id}_meta.json (and the run that wrote it)
    pc,                    \* position of crawl_book
    current_url,
    visited_urls,
    consecutive_failures,
    total_pages,           \* metadata['total_pages']
    errors,                \* metadata['errors'] (the section each entry names)
    status,                \* metadata['status']
    result,                \* what crawl_book returned: "none", "true", "false", "raised"
    run,                   \* ordinal of the current crawl_book run
    store0,                \* history: the store when the current run started
    requests,              \* history: every _fetch_url call, all runs
    saved,                 \* history: sections persisted by the current run, in order
    attempts,              \* history: candidates the main loop took up this run, in order
    partial,               \* sections whose page artifact is empty or cut short
    earlier                \* history: the runs that are over, in order

VARIABLES
    book_ids,              \* the DocumentIDs loaded from the books file
    workers,               \* self.workers (max_workers of the pool)
    futures,               \* index of book_ids -> state of its future
    running,               \* pool thread -> index it executes, or Idle
    yielded,               \* indices as_completed has handed to the main thread
    completed,
    failed,
    ppc                    \* position of crawl_books_from_file

pvars == <<book_ids, workers, futures, running, yielded, completed, failed, ppc>>

VARIABLES
    now,                   \* time.time(), in ticks
    request_lock,          \* holder of self.request_lock, or NoHolder
    last_request_time,     \* self.last_request_time: thread -> time, or Never
    rpc,                   \* thread -> position in _fetch_url / _rate_limit
    attempt,               \* thread -> attempt of the for loop in _fetch_url
    wake,                  \* thread -> earliest time its time.sleep returns
    lastEnd,               \* history: thread -> when its latest request ended
    gap,                   \* history: thread -> end-to-start gap before its latest request
    sent,                  \* history: thread -> HTTP requests issued by its current call
    response,              \* thread -> how the HTTP request it is handling ended
    ret                    \* thread -> what its latest _fetch_url call returned

rvars == <<now, request_lock, last_request_time, rpc, attempt, wake, lastEnd, gap,
           sent, response, ret>>

VARIABLES
    self_delay,            \* ShamelaHTTPClient: self.delay, in ticks of one second
    self_max_retries,      \* self.max_retries
    self_max_backoff,      \* self.max_backoff
    elapsed,               \* time.time() - self.last_request_time, as far as it matters
    gpc,                   \* position of get
    gattempt,              \* attempt of the for loop of get
    is_404_expected,       \* argument of the current get call
    sleeping,              \* what is left of the current time.sleep
    gresponse,             \* how the HTTP request being handled ended
    gret,                  \* what the latest get call returned
    gsent,                 \* history: HTTP requests issued by the current call
    since_end,             \* history: time since the latest HTTP request ended
    ggap,                  \* history: end-to-start gap before the latest request
    waits                  \* history: time slept between the attempts of the call

gvars == <<self_delay, self_max_retries, self_max_backoff, elapsed, gpc, gattempt,
           is_404_expected, sleeping, gresponse, gret, gsent, since_end, ggap, waits>>

VARIABLES
    anchors,               \* the <a> elements of a fetched page, in page order
    next_button,           \* index of the anchor taken as next_button, or NoButton
    next_url,              \* current_url as the step leaves it
    npc                    \* position in the next-control step

nvars == <<anchors, next_button, next_url, npc>>

wvars == <<remote, toc, store, record, pc, current_url, visited_urls,
           consecutive_failures, total_pages, errors, status, result, run,
           store0, requests, saved, attempts, partial, earlier>>

NoRecord == [status |-> "none", total_pages |-> 0, errors |-> <<>>, run |-> 0]
NoToc == [known |-> FALSE, ok |-> FALSE, links |-> <<>>]
\* The section links of a TOC page, in page order: none, one, or two different ones.
TocLinkSeqs ==
    {<<>>} \cup {<<a>> : a \in 1..MaxSec}
        \cup {l \in {<<a, b>> : a \in 1..MaxSec, b \in 1..MaxSec} : l[1] # l[2]}
TocChoices ==
    {[known |-> TRUE, ok |-> FALSE, links |-> <<>>]}
        \cup {[known |-> TRUE, ok |-> TRUE, links |-> l] : l \in TocLinkSeqs}

\* The page of a section that no request has asked for yet.
Unknown == [len |-> 0 - 2, next |-> NoNext]

\* What _fetch_url (requests.get with its retries) can return for a section
\* URL: the site's page, which does not change once it has been served; None
\* (NoneBody) beyond the highest section of the site.
FetchUrl(s) ==
    IF s \notin DOMAIN remote THEN {AbsentPage}
    ELSE IF remote[s] = Unknown THEN RemotePages
    ELSE {remote[s]}

\* The site as known after section s has returned page p.
Served(s, p) == IF s \in DOMAIN remote THEN [remote EXCEPT ![s] = p] ELSE remote

\* Faulty variant: only a missing body counts as unusable
UnusableNoneOnly(len) == len = NoneBody

\* `not html or len(html) < 500`
Unusable(len) == len = NoneBody \/ len < MinBody

\* Faulty variant: the probe accepts whatever the request returned
ProbeUsableAlways(len) == len = len

\* `test_html and len(test_html) > 500`
ProbeUsable(len) == len # NoneBody /\ len > MinBody

\* Faulty variant: the existence check never finds the artifact
ExistsNever(s) == s \in {}

\* section_file_path.exists()
Exists(s) == s \in store

\* `if current_section:` (None and 0 are falsy)
Truthy(s) == s # NoUrl /\ s # 0

Req(s, kind) == [run |-> run, sec |-> s, kind |-> kind, had |-> Exists(s)]

\* Faulty variant: the while condition without the visited test
LoopCondNoVisited ==
    /\ current_url # NoUrl
    /\ consecutive_failures < max_consecutive_failures

\* Faulty variant: the while condition with the ceiling compared by <=
LoopCondOffByOne ==
    /\ current_url # NoUrl
    /\ current_url \notin visited_urls
    /\ consecutive_failures <= max_consecutive_failures

\* the while condition of the walk
LoopCond ==
    /\ current_url # NoUrl
    /\ current_url \notin visited_urls
    /\ consecutive_failures < max_consecutive_failures

InitWalk ==
    /\ remote = [s \in 1..MaxSec |-> Unknown]
    /\ toc = NoToc
    /\ store \in SUBSET (1..MaxSec)
    /\ record = NoRecord
    /\ pc = "start"
    /\ current_url = NoUrl
    /\ visited_urls = {}
    /\ consecutive_failures = 0
    /\ total_pages = 0
    /\ errors = <<>>
    /\ status = "none"
    /\ result = "none"
    /\ run = 1
    /\ store0 = store
    /\ requests = <<>>
    /\ saved = <<>>
    /\ attempts = <<>>
    /\ partial = {}
    /\ earlier = <<>>

\* crawl_book up to the verification of section 1.
Start ==
    /\ pc = "start"
    /\ status' = "in_progress"
    /\ total_pages' = 0
    /\ errors' = <<>>
    /\ current_url' = 1
    /\ requests' = Append(requests, Req(1, "verify"))
    /\ visited_urls' = {}
    /\ consecutive_failures' = 0
    /\ \E test_html \in FetchUrl(1) :
        /\ remote' = Served(1, test_html)
        /\ pc' = IF Unusable(test_html.len) THEN "toc" ELSE "loop"
    /\ UNCHANGED <<toc, store, record, result, run, store0, saved, attempts>>
    /\ UNCHANGED <<partial, earlier>>
    /\ UNCHANGED <<pvars, rvars, gvars, nvars>>

\* Faulty variant: the no-entry-point returns leave without _save_metadata
TocFallbackNoRecord ==
    /\ pc = "toc"
    /\ \E t \in (IF toc.known THEN {toc} ELSE TocChoices) :
        /\ toc' = t
        /\ requests' = Append(requests, [run |-> run, sec |-> 0, kind |-> "toc", had |-> FALSE])
        /\ IF ~t.ok \/ t.links = <<>>
             THEN /\ status' = "failed"
                  /\ errors' = Append(errors, 0)
                  /\ result' = "false"
                  /\ pc' = "done"
                  /\ UNCHANGED <<current_url, record>>
             ELSE /\ current_url' = Head(t.links)
                  /\ pc' = "loop"
                  /\ UNCHANGED <<status, errors, record, result>>
    /\ UNCHANGED <<remote, store, visited_urls, consecutive_failures, total_pages,
                   run, store0, saved, attempts>>
    /\ UNCHANGED <<partial, earlier>>
    /\ UNCHANGED <<pvars, rvars, gvars, nvars>>

\* Section 1 is unusable: the table of contents decides the start.
TocFallback ==
    /\ pc = "toc"
    /\ \E t \in (IF toc.known THEN {toc} ELSE TocChoices) :
        /\ toc' = t
        /\ requests' = Append(requests, [run |-> run, sec |-> 0, kind |-> "toc", had |-> FALSE])
        /\ IF ~t.ok
             THEN /\ status' = "failed"
                  /\ errors' = Append(errors, 0)
                  /\ record' = [status |-> "failed", total_pages |-> total_pages,
                                errors |-> Append(errors, 0), run |-> run]
                  /\ result' = "false"
                  /\ pc' = "done"
                  /\ UNCHANGED current_url
             ELSE IF t.links = <<>>
             THEN /\ status' = "failed"
                  /\ errors' = Append(errors, 0)
                  /\ record' = [status |-> "failed", total_pages |-> total_pages,
                                errors |-> Append(errors, 0), run |-> run]
                  /\ result' = "false"
                  /\ pc' = "done"
                  /\ UNCHANGED current_url
             ELSE /\ current_url' = Head(t.links)
                  /\ pc' = "loop"
                  /\ UNCHANGED <<status, errors, record, result>>
    /\ UNCHANGED <<remote, store, visited_urls, consecutive_failures, total_pages,
                   run, store0, saved, attempts>>
    /\ UNCHANGED <<partial, earlier>>
    /\ UNCHANGED <<pvars, rvars, gvars, nvars>>

\* Faulty variant: the skip step resets the failure counter
SkipExistingResets ==
    /\ pc = "loop"
    /\ LoopCond
    /\ Truthy(current_url) /\ Exists(current_url)
    /\ visited_urls' = visited_urls \cup {current_url}
    /\ total_pages' = total_pages + 1
    /\ current_url' = current_url + 1
    /\ consecutive_failures' = 0
    /\ attempts' = Append(attempts, [sec |-> current_url, how |-> "skip"])
    /\ UNCHANGED <<remote, toc, store, record, pc, errors,
                   status, result, run, store0, requests, saved>>
    /\ UNCHANGED <<partial, earlier>>
    /\ UNCHANGED <<pvars, rvars, gvars, nvars>>

\* The artifact of the candidate exists: no request, advance to the next section.
SkipExisting ==
    /\ pc = "loop"
    /\ LoopCond
    /\ Truthy(current_url) /\ Exists(current_url)
    /\ visited_urls' = visited_urls \cup {current_url}
    /\ total_pages' = total_pages + 1
    /\ current_url' = current_url + 1
    /\ attempts' = Append(attempts, [sec |-> current_url, how |-> "skip"])
    /\ UNCHANGED <<remote, toc, store, record, pc, consecutive_failures, errors,
                   status, result, run, store0, requests, saved>>
    /\ UNCHANGED <<partial, earlier>>
    /\ UNCHANGED <<pvars, rvars, gvars, nvars>>

\* The candidate is fetched and the fetch fails or returns an unusable body.
FetchFailed ==
    /\ pc = "loop"
    /\ LoopCond
    /\ ~(Truthy(current_url) /\ Exists(current_url))
    /\ \E html \in FetchUrl(current_url) :
        /\ Unusable(html.len)
        /\ remote' = Served(current_url, html)
    /\ requests' = Append(requests, Req(current_url, "main"))
    /\ errors' = Append(errors, current_url)
    /\ visited_urls' = visited_urls \cup {current_url}
    /\ consecutive_failures' = consecutive_failures + 1
    /\ attempts' = Append(attempts, [sec |-> current_url, how |-> "fail"])
    /\ IF Truthy(current_url)
         THEN current_url' = current_url + 1 /\ pc' = "loop"
         ELSE UNCHANGED current_url /\ pc' = "break"
    /\ UNCHANGED <<toc, store, record, total_pages, status, result, run,
                   store0, saved>>
    /\ UNCHANGED <<partial, earlier>>
    /\ UNCHANGED <<pvars, rvars, gvars, nvars>>

\* The candidate is fetched, saved, and its next control is followed.
FetchSaved ==
    /\ pc = "loop"
    /\ LoopCond
    /\ ~(Truthy(current_url) /\ Exists(current_url))
    /\ requests' = Append(requests, Req(current_url, "main"))
    /\ consecutive_failures' = 0
    /\ visited_urls' = visited_urls \cup {current_url}
    /\ store' = store \cup {current_url}
    /\ saved' = Append(saved, current_url)
    /\ total_pages' = total_pages + 1
    /\ attempts' = Append(attempts, [sec |-> current_url, how |-> "ok"])
    /\ \E html \in FetchUrl(current_url) :
        /\ ~Unusable(html.len)
        /\ remote' = Served(current_url, html)
        /\ IF html.next # NoNext
             THEN current_url' = html.next /\ pc' = "loop"
             ELSE IF Truthy(current_url)
               THEN UNCHANGED current_url /\ pc' = "probe"
               ELSE current_url' = NoUrl /\ pc' = "loop"
    /\ UNCHANGED <<toc, record, errors, status, result, run, store0>>
    /\ UNCHANGED <<partial, earlier>>
    /\ UNCHANGED <<pvars, rvars, gvars, nvars>>

\* The candidate is fetched, and _save_html raises (the store cannot be
\* written): nothing in crawl_book catches it.
FetchSaveRaises ==
    /\ pc = "loop"
    /\ LoopCond
    /\ ~(Truthy(current_url) /\ Exists(current_url))
    /\ \E html \in FetchUrl(current_url) :
        /\ ~Unusable(html.len)
        /\ remote' = Served(current_url, html)
    /\ requests' = Append(requests, Req(current_url, "main"))
    /\ consecutive_failures' = 0
    /\ visited_urls' = visited_urls \cup {current_url}
    /\ attempts' = Append(attempts, [sec |-> current_url, how |-> "raise"])
    /\ result' = "raised"
    /\ pc' = "raised"
    /\ UNCHANGED <<toc, store, record, current_url, total_pages, errors,
                   status, run, store0, saved>>
    /\ UNCHANGED <<partial, earlier>>
    /\ UNCHANGED <<pvars, rvars, gvars, nvars>>

\* The candidate is fetched, and the process is interrupted inside _save_html
\* after open() has created the file and before the body is written out: the
\* artifact exists, empty or cut short, and the process is gone with all it
\* held in memory. (An interruption anywhere else leaves the store as the
\* step before it left it.)
SaveInterrupted ==
    /\ pc = "loop"
    /\ LoopCond
    /\ ~(Truthy(current_url) /\ Exists(current_url))
    /\ \E html \in FetchUrl(current_url) :
        /\ ~Unusable(html.len)
        /\ remote' = Served(current_url, html)
    /\ requests' = Append(requests, Req(current_url, "main"))
    /\ store' = store \cup {current_url}
    /\ partial' = partial \cup {current_url}
    /\ pc' = "killed"
    /\ UNCHANGED <<toc, record, current_url, visited_urls, consecutive_failures,
                   total_pages, errors, status, result, run, store0, saved, attempts,
                   earlier>>
    /\ UNCHANGED <<pvars, rvars, gvars, nvars>>

\* No next control on the saved page: probe section + 1.
ProbeNext ==
    /\ pc = "probe"
    /\ LET test_url == current_url + 1 IN
         /\ requests' = Append(requests, Req(test_url, "probe"))
         /\ \E test_html \in FetchUrl(test_url) :
              /\ remote' = Served(test_url, test_html)
              /\ current_url' = IF ProbeUsable(test_html.len) THEN test_url ELSE NoUrl
    /\ pc' = "loop"
    /\ UNCHANGED <<toc, store, record, visited_urls, consecutive_failures,
                   total_pages, errors, status, result, run, store0, saved, attempts>>
    /\ UNCHANGED <<partial, earlier>>
    /\ UNCHANGED <<pvars, rvars, gvars, nvars>>

\* The walk is over: the record is written with status complete.
Finish ==
    /\ \/ pc = "loop" /\ ~LoopCond
       \/ pc = "break"
    /\ status' = "complete"
    /\ record' = [status |-> "complete", total_pages |-> total_pages,
                  errors |-> errors, run |-> run]
    /\ result' = "true"
    /\ pc' = "done"
    /\ UNCHANGED <<remote, toc, store, current_url, visited_urls, consecutive_failures,
                   total_pages, errors, run, store0, requests, saved, attempts>>
    /\ UNCHANGED <<partial, earlier>>
    /\ UNCHANGED <<pvars, rvars, gvars, nvars>>

\* crawl_book is called again for the same document, the store left as it is.
Rerun ==
    /\ pc \in {"done", "raised", "killed"}
    /\ earlier' = Append(earlier, [store0 |-> store0, how |-> pc,
                                   record |-> IF record.run = run THEN record ELSE NoRecord])
    /\ run < MaxRuns
    /\ run' = run + 1
    /\ pc' = "start"
    /\ current_url' = NoUrl
    /\ visited_urls' = {}
    /\ consecutive_failures' = 0
    /\ total_pages' = 0
    /\ errors' = <<>>
    /\ status' = "none"
    /\ result' = "none"
    /\ store0' = store
    /\ saved' = <<>>
    /\ attempts' = <<>>
    /\ UNCHANGED <<remote, toc, store, record, requests, partial>>
    /\ UNCHANGED <<pvars, rvars, gvars, nvars>>

NextWalk ==
    \/ Start
    \/ TocFallback
    \/ SkipExisting
    \/ FetchFailed
    \/ FetchSaved
    \/ FetchSaveRaises
    \/ SaveInterrupted
    \/ ProbeNext
    \/ Finish
    \/ Rerun

\* ================================================= crawl_books_from_file
\* Longest books file.
MaxBooks == 3
\* Largest --workers value.
MaxWorkers == 2

Docs == {"d1", "d2"}
Idle == 0
BookLists == UNION {[1..n -> Docs] : n \in 0..MaxBooks}
\* How an execution of crawl_book ends: it returns True or False, or raises.
Outcomes == {"true", "false", "raised"}

\* Faulty variant: a future that raised is logged but not counted
CountsFailedReturnOnly(outcome) == outcome = "false"

\* `if success: completed += 1`
CountsCompleted(outcome) == outcome = "true"

\* `else: failed += 1`, and `except Exception: failed += 1`
CountsFailed(outcome) == outcome = "false" \/ outcome = "raised"

InitPool ==
    /\ book_ids \in BookLists
    /\ workers \in 1..MaxWorkers
    /\ futures = [i \in DOMAIN book_ids |-> "unsubmitted"]
    /\ running = [w \in 1..workers |-> Idle]
    /\ yielded = {}
    /\ completed = 0
    /\ failed = 0
    /\ ppc = "submit"

PoolOff ==
    /\ book_ids = <<>>
    /\ workers = 1
    /\ futures = <<>>
    /\ running = <<Idle>>
    /\ yielded = {}
    /\ completed = 0
    /\ failed = 0
    /\ ppc = "off"

Queued == {i \in DOMAIN futures : futures[i] = "queued"}

\* executor.submit(self.crawl_book, book_id), in the order of book_ids.
Submit ==
    /\ ppc = "submit"
    /\ \E i \in DOMAIN futures :
        /\ futures[i] = "unsubmitted"
        /\ \A j \in DOMAIN futures : j < i => futures[j] # "unsubmitted"
        /\ futures' = [futures EXCEPT ![i] = "queued"]
    /\ UNCHANGED <<book_ids, workers, running, yielded, completed, failed, ppc>>
    /\ UNCHANGED <<wvars, rvars, gvars, nvars>>

\* The dict comprehension is complete: completed = 0, failed = 0, as_completed.
StartCollecting ==
    /\ ppc = "submit"
    /\ \A i \in DOMAIN futures : futures[i] # "unsubmitted"
    /\ completed' = 0
    /\ failed' = 0
    /\ ppc' = "collect"
    /\ UNCHANGED <<book_ids, workers, futures, running, yielded>>
    /\ UNCHANGED <<wvars, rvars, gvars, nvars>>

\* An idle pool thread takes the oldest queued work item and calls crawl_book.
WorkerTakes(w) ==
    /\ running[w] = Idle
    /\ \E i \in Queued :
        /\ \A j \in Queued : i <= j
        /\ futures' = [futures EXCEPT ![i] = "running"]
        /\ running' = [running EXCEPT ![w] = i]
    /\ UNCHANGED <<book_ids, workers, yielded, completed, failed, ppc>>
    /\ UNCHANGED <<wvars, rvars, gvars, nvars>>

\* crawl_book ends; the future holds its result or its exception, and the
\* thread is free for the next work item.
WorkerEnds(w) ==
    /\ running[w] # Idle
    /\ \E o \in Outcomes : futures' = [futures EXCEPT ![running[w]] = o]
    /\ running' = [running EXCEPT ![w] = Idle]
    /\ UNCHANGED <<book_ids, workers, yielded, completed, failed, ppc>>
    /\ UNCHANGED <<wvars, rvars, gvars, nvars>>

\* One iteration of `for future in as_completed(future_to_book)`.
Collect ==
    /\ ppc = "collect"
    /\ \E i \in DOMAIN futures :
        /\ futures[i] \in Outcomes
        /\ i \notin yielded
        /\ yielded' = yielded \cup {i}
        /\ completed' = IF CountsCompleted(futures[i]) THEN completed + 1 ELSE completed
        /\ failed' = IF CountsFailed(futures[i]) THEN failed + 1 ELSE failed
    /\ UNCHANGED <<book_ids, workers, futures, running, ppc>>
    /\ UNCHANGED <<wvars, rvars, gvars, nvars>>

\* as_completed is exhausted and the executor is shut down.
PoolDone ==
    /\ ppc = "collect"
    /\ yielded = DOMAIN futures
    /\ ppc' = "done"
    /\ UNCHANGED <<book_ids, workers, futures, running, yielded, completed, failed>>
    /\ UNCHANGED <<wvars, rvars, gvars, nvars>>

NextPool ==
    \/ Submit
    \/ StartCollecting
    \/ \E w \in 1..workers : WorkerTakes(w)
    \/ \E w \in 1..workers : WorkerEnds(w)
    \/ Collect
    \/ PoolDone

\* ============================================== _rate_limit and _fetch_url
\* Pool threads issuing requests.
MaxThreads == 2
\* Last tick of the clock.
MaxTime == 5
\* self.delay (--delay), in ticks of one second.
Delay == 2
\* max_retries: int = 3
max_retries == 3

Threads == 1..MaxThreads
NoHolder == 0
Never == 0 - 1
NoGap == 0 - 1

\* What `except requests.exceptions.RequestException` catches: a timeout, a
\* connection error, or the HTTPError of raise_for_status for a 5xx, a 404,
\* or another 4xx status.
RequestExceptions == {"timeout", "connection", "5xx", "404", "4xx"}

\* 2 ** attempt
RECURSIVE Pow2(_)
Pow2(n) == IF n = 0 THEN 1 ELSE 2 * Pow2(n - 1)

InitRate ==
    /\ now = 0
    /\ request_lock = NoHolder
    /\ last_request_time = [t \in Threads |-> Never]
    /\ rpc = [t \in Threads |-> "idle"]
    /\ attempt = [t \in Threads |-> 0]
    /\ wake = [t \in Threads |-> 0]
    /\ lastEnd = [t \in Threads |-> Never]
    /\ gap = [t \in Threads |-> NoGap]
    /\ sent = [t \in Threads |-> 0]
    /\ response = [t \in Threads |-> "none"]
    /\ ret = [t \in Threads |-> "none"]

\* No thread of the crawler fetches anything.
RateOff ==
    /\ now = 0
    /\ request_lock = NoHolder
    /\ last_request_time = [t \in Threads |-> Never]
    /\ rpc = [t \in Threads |-> "off"]
    /\ attempt = [t \in Threads |-> 0]
    /\ wake = [t \in Threads |-> 0]
    /\ lastEnd = [t \in Threads |-> Never]
    /\ gap = [t \in Threads |-> NoGap]
    /\ sent = [t \in Threads |-> 0]
    /\ response = [t \in Threads |-> "none"]
    /\ ret = [t \in Threads |-> "none"]

\* The thread's own minimum delay is over (or it has issued no request yet).
DelayElapsed(t) ==
    last_request_time[t] = Never \/ ~(now - last_request_time[t] < Delay)

\* time passes
Tick ==
    /\ now < MaxTime
    /\ now' = now + 1
    /\ UNCHANGED <<request_lock, last_request_time, rpc, attempt, wake, lastEnd, gap>>
    /\ UNCHANGED <<sent, response, ret>>
    /\ UNCHANGED <<wvars, pvars, gvars, nvars>>

\* _fetch_url is called: attempt 0 of its for loop.
BeginFetch(t) ==
    /\ rpc[t] = "idle"
    /\ attempt' = [attempt EXCEPT ![t] = 0]
    /\ rpc' = [rpc EXCEPT ![t] = "acquire"]
    /\ sent' = [sent EXCEPT ![t] = 0]
    /\ response' = [response EXCEPT ![t] = "none"]
    /\ ret' = [ret EXCEPT ![t] = "none"]
    /\ UNCHANGED <<now, request_lock, last_request_time, wake, lastEnd, gap>>
    /\ UNCHANGED <<wvars, pvars, gvars, nvars>>

\* _rate_limit: `with self.request_lock`, now = time.time(), and the decision
\* to sleep, taken with the lock held.
AcquireLock(t) ==
    /\ rpc[t] = "acquire"
    /\ request_lock = NoHolder
    /\ request_lock' = t
    /\ IF DelayElapsed(t)
         THEN /\ rpc' = [rpc EXCEPT ![t] = "stamp"]
              /\ UNCHANGED wake
         ELSE /\ rpc' = [rpc EXCEPT ![t] = "sleep"]
              /\ wake' = [wake EXCEPT ![t] = now + (Delay - (now - last_request_time[t]))]
    /\ UNCHANGED <<now, last_request_time, attempt, lastEnd, gap>>
    /\ UNCHANGED <<sent, response, ret>>
    /\ UNCHANGED <<wvars, pvars, gvars, nvars>>

\* time.sleep(self.delay - elapsed) returns; the lock is still held.
RateSleepEnds(t) ==
    /\ rpc[t] = "sleep"
    /\ now >= wake[t]
    /\ rpc' = [rpc EXCEPT ![t] = "stamp"]
    /\ UNCHANGED <<now, request_lock, last_request_time, attempt, wake, lastEnd, gap>>
    /\ UNCHANGED <<sent, response, ret>>
    /\ UNCHANGED <<wvars, pvars, gvars, nvars>>

\* self.last_request_time[thread_id] = time.time(), and the lock is released.
Stamp(t) ==
    /\ rpc[t] = "stamp"
    /\ last_request_time' = [last_request_time EXCEPT ![t] = now]
    /\ request_lock' = NoHolder
    /\ rpc' = [rpc EXCEPT ![t] = "get"]
    /\ UNCHANGED <<now, attempt, wake, lastEnd, gap>>
    /\ UNCHANGED <<sent, response, ret>>
    /\ UNCHANGED <<wvars, pvars, gvars, nvars>>

\* requests.get starts.
SendRequest(t) ==
    /\ rpc[t] = "get"
    /\ gap' = [gap EXCEPT ![t] = IF lastEnd[t] = Never THEN NoGap ELSE now - lastEnd[t]]
    /\ rpc' = [rpc EXCEPT ![t] = "inflight"]
    /\ sent' = [sent EXCEPT ![t] = sent[t] + 1]
    /\ UNCHANGED <<now, request_lock, last_request_time, attempt, wake, lastEnd,
                   response, ret>>
    /\ UNCHANGED <<wvars, pvars, gvars, nvars>>

\* The response arrives and raise_for_status passes: response.text is returned.
ResponseOk(t) ==
    /\ rpc[t] = "inflight"
    /\ lastEnd' = [lastEnd EXCEPT ![t] = now]
    /\ rpc' = [rpc EXCEPT ![t] = "idle"]
    /\ response' = [response EXCEPT ![t] = "ok"]
    /\ ret' = [ret EXCEPT ![t] = "text"]
    /\ UNCHANGED <<now, request_lock, last_request_time, attempt, wake, gap, sent>>
    /\ UNCHANGED <<wvars, pvars, gvars, nvars>>

\* The request ends in a RequestException (timeout, connection error, or an
\* error status through raise_for_status): back off and retry, or return None.
ResponseError(t) ==
    /\ rpc[t] = "inflight"
    /\ lastEnd' = [lastEnd EXCEPT ![t] = now]
    /\ \E e \in RequestExceptions : response' = [response EXCEPT ![t] = e]
    /\ IF attempt[t] < max_retries - 1
         THEN /\ wake' = [wake EXCEPT ![t] = now + Pow2(attempt[t])]
              /\ rpc' = [rpc EXCEPT ![t] = "backoff"]
              /\ UNCHANGED ret
         ELSE /\ rpc' = [rpc EXCEPT ![t] = "idle"]
              /\ ret' = [ret EXCEPT ![t] = "None"]
              /\ UNCHANGED wake
    /\ UNCHANGED <<now, request_lock, last_request_time, attempt, gap, sent>>
    /\ UNCHANGED <<wvars, pvars, gvars, nvars>>

\* time.sleep(wait_time) returns: the next attempt of the for loop.
BackoffEnds(t) ==
    /\ rpc[t] = "backoff"
    /\ now >= wake[t]
    /\ attempt' = [attempt EXCEPT ![t] = attempt[t] + 1]
    /\ rpc' = [rpc EXCEPT ![t] = "acquire"]
    /\ response' = [response EXCEPT ![t] = "none"]
    /\ UNCHANGED <<now, request_lock, last_request_time, wake, lastEnd, gap>>
    /\ UNCHANGED <<sent, ret>>
    /\ UNCHANGED <<wvars, pvars, gvars, nvars>>

NextRate ==
    \/ Tick
    \/ \E t \in Threads : BeginFetch(t)
    \/ \E t \in Threads : AcquireLock(t)
    \/ \E t \in Threads : RateSleepEnds(t)
    \/ \E t \in Threads : Stamp(t)
    \/ \E t \in Threads : SendRequest(t)
    \/ \E t \in Threads : ResponseOk(t)
    \/ \E t \in Threads : ResponseError(t)
    \/ \E t \in Threads : BackoffEnds(t)

\* ================================================== ShamelaHTTPClient.get
\* Largest delay a client is constructed with, in ticks.
MaxDelay == 2
\* Largest max_retries a client is constructed with.
MaxRetries == 3
\* Largest max_backoff a client is constructed with, in ticks.
MaxBackoff == 3

\* Status codes of a response: success, the edges of the 4xx range, 404, 5xx.
StatusCodes == {200, 400, 404, 499, 500}
\* What session.get raises instead of returning a response.
Raised == {"Timeout", "ConnectionError", "RequestException"}
NoResponse == [kind |-> "none", code |-> 0]
Status(code) == [kind |-> "status", code |-> code]
Exception(e) == [kind |-> e, code |-> 0]

\* Beyond the largest delay the elapsed time makes no difference.
ElapsedCap == MaxDelay

Min(a, b) == IF a < b THEN a ELSE b

\* Faulty variant: a 404 is never taken as the expected one
Expected404Never(code, expected) == code # code

\* `if response.status_code == 404: if is_404_expected:`
Expected404(code, expected) == code = 404 /\ expected

\* response.raise_for_status() raises HTTPError
RaisesForStatus(code) == 400 <= code /\ code < 600

\* Faulty variant: no client error ends the call
NoRetryStatusNever(code) == code # code

\* `if 400 <= e.response.status_code < 500 and e.response.status_code != 404`
NoRetryStatus(code) == 400 <= code /\ code < 500 /\ code # 404

\* Faulty variant: no attempt is taken for the last one
LastAttemptNever(a) == a # a

\* `if attempt == self.max_retries - 1`
LastAttempt(a) == a = self_max_retries - 1

\* Faulty variant: the backoff without its cap
BackoffUncapped(a) == self_delay * Pow2(a)

\* backoff = min(self.delay * (2 ** attempt), self.max_backoff)
Backoff(a) == Min(self_delay * Pow2(a), self_max_backoff)

InitGet ==
    /\ self_delay \in 1..MaxDelay
    /\ self_max_retries \in 1..MaxRetries
    /\ self_max_backoff \in 1..MaxBackoff
    /\ elapsed = ElapsedCap
    /\ gpc = "idle"
    /\ gattempt = 0
    /\ is_404_expected = FALSE
    /\ sleeping = 0
    /\ gresponse = NoResponse
    /\ gret = "none"
    /\ gsent = 0
    /\ since_end = NoGap
    /\ ggap = NoGap
    /\ waits = <<>>

GetOff ==
    /\ self_delay = 1
    /\ self_max_retries = 1
    /\ self_max_backoff = 1
    /\ elapsed = ElapsedCap
    /\ gpc = "off"
    /\ gattempt = 0
    /\ is_404_expected = FALSE
    /\ sleeping = 0
    /\ gresponse = NoResponse
    /\ gret = "none"
    /\ gsent = 0
    /\ since_end = NoGap
    /\ ggap = NoGap
    /\ waits = <<>>

\* One second passes.
GetTick ==
    /\ gpc # "off"
    /\ elapsed' = Min(elapsed + 1, ElapsedCap)
    /\ sleeping' = IF sleeping > 0 THEN sleeping - 1 ELSE 0
    /\ since_end' = IF since_end = NoGap THEN NoGap ELSE Min(since_end + 1, ElapsedCap)
    /\ UNCHANGED <<self_delay, self_max_retries, self_max_backoff, gpc, gattempt,
                   is_404_expected, gresponse, gret, gsent, ggap, waits>>
    /\ UNCHANGED <<wvars, pvars, rvars, nvars>>

\* get(url, is_404_expected) is called: attempt 0 of its for loop.
GetCall ==
    /\ gpc = "idle"
    /\ \E e \in BOOLEAN : is_404_expected' = e
    /\ gattempt' = 0
    /\ gpc' = "rate"
    /\ gresponse' = NoResponse
    /\ gret' = "none"
    /\ gsent' = 0
    /\ waits' = <<>>
    /\ UNCHANGED <<self_delay, self_max_retries, self_max_backoff, elapsed, sleeping,
                   since_end, ggap>>
    /\ UNCHANGED <<wvars, pvars, rvars, nvars>>

\* `if elapsed < self.delay: time.sleep(self.delay - elapsed)`
GetRateLimit ==
    /\ gpc = "rate"
    /\ IF elapsed < self_delay
         THEN /\ sleeping' = self_delay - elapsed
              /\ gpc' = "ratesleep"
              /\ waits' = IF waits = <<>> THEN waits
                          ELSE [waits EXCEPT ![Len(waits)] = @ + (self_delay - elapsed)]
         ELSE /\ gpc' = "send"
              /\ UNCHANGED <<sleeping, waits>>
    /\ UNCHANGED <<self_delay, self_max_retries, self_max_backoff, elapsed, gattempt,
                   is_404_expected, gresponse, gret, gsent, since_end, ggap>>
    /\ UNCHANGED <<wvars, pvars, rvars, nvars>>

\* The rate-limiting sleep returns.
GetRateSleepEnds ==
    /\ gpc = "ratesleep"
    /\ sleeping = 0
    /\ gpc' = "send"
    /\ UNCHANGED <<self_delay, self_max_retries, self_max_backoff, elapsed, gattempt,
                   is_404_expected, sleeping, gresponse, gret, gsent, since_end, ggap,
                   waits>>
    /\ UNCHANGED <<wvars, pvars, rvars, nvars>>

\* self.session.get(url, timeout=30) starts.
GetSend ==
    /\ gpc = "send"
    /\ gpc' = "inflight"
    /\ gsent' = gsent + 1
    /\ ggap' = since_end
    /\ UNCHANGED <<self_delay, self_max_retries, self_max_backoff, elapsed, gattempt,
                   is_404_expected, sleeping, gresponse, gret, since_end, waits>>
    /\ UNCHANGED <<wvars, pvars, rvars, nvars>>

\* The tail of every retrying except clause: None after the last attempt, the
\* backoff sleep otherwise.
RetryOrGiveUp ==
    IF LastAttempt(gattempt)
      THEN /\ gpc' = "idle"
           /\ gret' = "None"
           /\ UNCHANGED <<sleeping, waits>>
      ELSE /\ gpc' = "backoff"
           /\ sleeping' = Backoff(gattempt)
           /\ waits' = Append(waits, Backoff(gattempt))
           /\ UNCHANGED gret

\* A response whose status passes raise_for_status: the parsed body is returned.
GetReturnsSoup ==
    /\ gpc = "inflight"
    /\ \E code \in StatusCodes :
        /\ ~Expected404(code, is_404_expected)
        /\ ~RaisesForStatus(code)
        /\ gresponse' = Status(code)
    /\ elapsed' = 0
    /\ since_end' = 0
    /\ gpc' = "idle"
    /\ gret' = "soup"
    /\ UNCHANGED <<self_delay, self_max_retries, self_max_backoff, gattempt,
                   is_404_expected, sleeping, gsent, ggap, waits>>
    /\ UNCHANGED <<wvars, pvars, rvars, nvars>>

\* A 404 response to a call with is_404_expected: None, at once.
GetExpected404 ==
    /\ gpc = "inflight"
    /\ \E code \in StatusCodes :
        /\ Expected404(code, is_404_expected)
        /\ gresponse' = Status(code)
    /\ elapsed' = 0
    /\ since_end' = 0
    /\ gpc' = "idle"
    /\ gret' = "None"
    /\ UNCHANGED <<self_delay, self_max_retries, self_max_backoff, gattempt,
                   is_404_expected, sleeping, gsent, ggap, waits>>
    /\ UNCHANGED <<wvars, pvars, rvars, nvars>>

\* A response with an error status: raise_for_status raises HTTPError, and
\* `except requests.exceptions.HTTPError` handles it.
GetHTTPError ==
    /\ gpc = "inflight"
    /\ elapsed' = 0
    /\ since_end' = 0
    /\ \E code \in StatusCodes :
        /\ ~Expected404(code, is_404_expected)
        /\ RaisesForStatus(code)
        /\ gresponse' = Status(code)
        /\ IF NoRetryStatus(code)
             THEN /\ gpc' = "idle"
                  /\ gret' = "None"
                  /\ UNCHANGED <<sleeping, waits>>
             ELSE RetryOrGiveUp
    /\ UNCHANGED <<self_delay, self_max_retries, self_max_backoff, gattempt,
                   is_404_expected, gsent, ggap>>
    /\ UNCHANGED <<wvars, pvars, rvars, nvars>>

\* session.get raises instead of returning (Timeout, ConnectionError, or
\* another RequestException): last_request_time is not set.
GetRaises ==
    /\ gpc = "inflight"
    /\ \E e \in Raised : gresponse' = Exception(e)
    /\ since_end' = 0
    /\ RetryOrGiveUp
    /\ UNCHANGED <<self_delay, self_max_retries, self_max_backoff, elapsed, gattempt,
                   is_404_expected, gsent, ggap>>
    /\ UNCHANGED <<wvars, pvars, rvars, nvars>>

\* time.sleep(backoff) returns: the next attempt of the for loop.
GetBackoffEnds ==
    /\ gpc = "backoff"
    /\ sleeping = 0
    /\ gattempt' = gattempt + 1
    /\ gpc' = "rate"
    /\ gresponse' = NoResponse
    /\ UNCHANGED <<self_delay, self_max_retries, self_max_backoff, elapsed,
                   is_404_expected, sleeping, gret, gsent, since_end, ggap, waits>>
    /\ UNCHANGED <<wvars, pvars, rvars, nvars>>

\* The steps of a get call in progress.
GetStep ==
    \/ GetRateLimit
    \/ GetRateSleepEnds
    \/ GetSend
    \/ GetReturnsSoup
    \/ GetExpected404
    \/ GetHTTPError
    \/ GetRaises
    \/ GetBackoffEnds

NextGet ==
    \/ GetTick
    \/ GetCall
    \/ GetStep

\* ================================== the next control of a fetched page
\* Most anchors of a page.
MaxAnchors == 2

\* self.base_url
Origin == "https://shamela.ws"
\* link.get('href') of an anchor without the attribute.
NoHref == <<"None">>
\* An href, as the sequence of its parts: the site origin, the leading slash
\* of a path, a path, the fragment sign and a fragment.
Hrefs ==
    { NoHref,
      <<>>,
      <<"/", "book/D/2">>,
      <<"/", "book/D/2", "#", "p5">>,
      <<"2">>,
      <<"2", "#", "p5">>,
      <<Origin, "/", "book/D/2">>,
      <<Origin, "/", "book/D/2", "#", "p5">>,
      <<"#", "p5">> }
\* link.get_text(strip=True)
Texts == {">", ">>", "&gt;"}
Anchors == [btn : BOOLEAN, text : Texts, href : Hrefs, disabled : BOOLEAN]
AnchorSeqs == UNION {[1..n -> Anchors] : n \in 0..MaxAnchors}
NoButton == 0
\* current_url before the step has set it; and the sequential probe it falls
\* back to without a next button.
NotSet == <<"unset">>
ToProbe == <<"probe">>

\* next_href.startswith('/')
StartsWithSlash(h) == h # <<>> /\ h[1] = "/"

\* next_href.split('#')[0]
BeforeFragment(h) ==
    LET at == {i \in DOMAIN h : h[i] = "#"}
    IN  IF at = {} THEN h
        ELSE SubSeq(h, 1, (CHOOSE i \in at : \A j \in at : i <= j) - 1)

\* `if link_text == '>' or link_text == '&gt;'`
ChevronText(t) == t = ">" \/ t = "&gt;"

\* `if href and 'disabled' not in link.get('class', [])`
Usable(a) == a.href # NoHref /\ a.href # <<>> /\ ~a.disabled

\* The anchor the for loop over soup.find_all('a', class_='btn') breaks at.
NextButton(as) ==
    LET hits == {i \in DOMAIN as : as[i].btn /\ ChevronText(as[i].text) /\ Usable(as[i])}
    IN  IF hits = {} THEN NoButton ELSE CHOOSE i \in hits : \A j \in hits : i <= j

\* current_url from next_href
Resolved(h) ==
    IF StartsWithSlash(h) THEN <<Origin>> \o BeforeFragment(h) ELSE BeforeFragment(h)

InitNext ==
    /\ anchors \in AnchorSeqs
    /\ next_button = NoButton
    /\ next_url = NotSet
    /\ npc = "parse"

NextOff ==
    /\ anchors = <<>>
    /\ next_button = NoButton
    /\ next_url = NotSet
    /\ npc = "off"

\* The page is parsed and the loop over its button anchors has run.
FindNextButton ==
    /\ npc = "parse"
    /\ next_button' = NextButton(anchors)
    /\ npc' = "found"
    /\ UNCHANGED <<anchors, next_url>>
    /\ UNCHANGED <<wvars, pvars, rvars, gvars>>

\* `if next_button:` the candidate is its href.
FollowNextButton ==
    /\ npc = "found"
    /\ next_button # NoButton
    /\ next_url' = Resolved(anchors[next_button].href)
    /\ npc' = "done"
    /\ UNCHANGED <<anchors, next_button>>
    /\ UNCHANGED <<wvars, pvars, rvars, gvars>>

\* No next button: the step goes on to the probe of section + 1.
NoNextButton ==
    /\ npc = "found"
    /\ next_button = NoButton
    /\ next_url' = ToProbe
    /\ npc' = "done"
    /\ UNCHANGED <<anchors, next_button>>
    /\ UNCHANGED <<wvars, pvars, rvars, gvars>>

NextNext ==
    \/ FindNextButton
    \/ FollowNextButton
    \/ NoNextButton

\* ======================================================== specifications
vars == <<wvars, pvars, rvars, gvars, nvars>>

WalkOff ==
    /\ remote = <<>>
    /\ toc = NoToc
    /\ store = {}
    /\ record = NoRecord
    /\ pc = "off"
    /\ current_url = NoUrl
    /\ visited_urls = {}
    /\ consecutive_failures = 0
    /\ total_pages = 0
    /\ errors = <<>>
    /\ status = "none"
    /\ result = "none"
    /\ run = 0
    /\ store0 = {}
    /\ requests = <<>>
    /\ saved = <<>>
    /\ attempts = <<>>
    /\ partial = {}
    /\ earlier = <<>>

Init == InitWalk /\ PoolOff /\ RateOff /\ GetOff /\ NextOff

Spec == Init /\ [][NextWalk]_vars

SpecFair == Spec /\ WF_vars(NextWalk)

InitPoolOnly == WalkOff /\ InitPool /\ RateOff /\ GetOff /\ NextOff

SpecPool == InitPoolOnly /\ [][NextPool]_vars

InitRateOnly == WalkOff /\ PoolOff /\ InitRate /\ GetOff /\ NextOff

SpecRate == InitRateOnly /\ [][NextRate]_vars

InitGetOnly == WalkOff /\ PoolOff /\ RateOff /\ InitGet /\ NextOff

SpecGet == InitGetOnly /\ [][NextGet]_vars

\* Time passes, and a call in progress takes its steps (a request ends, by its
\* timeout at the latest).
SpecGetFair == SpecGet /\ WF_vars(GetTick) /\ WF_vars(GetStep)

\* Either fetcher: the crawler's threads in _fetch_url, or a client in get.
InitFetch == WalkOff /\ PoolOff /\ NextOff /\ ((InitRate /\ GetOff) \/ (RateOff /\ InitGet))

NextFetch ==
    \/ NextRate
    \/ NextGet

SpecFetch == InitFetch /\ [][NextFetch]_vars

InitNextOnly == WalkOff /\ PoolOff /\ RateOff /\ GetOff /\ InitNext

SpecNext == InitNextOnly /\ [][NextNext]_vars

\* ===================================================== claims on the walk

PageKinds == {"verify", "main", "probe"}

\* C1: no request (section-1 verification, main-loop fetch or probe of
\* section + 1) is issued for a section whose page artifact exists in the
\* store at the moment of the request.
C1_NoRequestForExistingArtifact ==
    \A i \in DOMAIN requests :
        requests[i].kind \in PageKinds => ~requests[i].had

\* C2: counting one _fetch_url call as one fetch, every section of the
\* document is fetched at most once, within a run and over all runs that
\* share the store.
C2_FetchedAtMostOnce ==
    \A i, j \in DOMAIN requests :
        (i < j /\ requests[i].kind \in PageKinds /\ requests[j].kind \in PageKinds)
            => requests[i].sec # requests[j].sec

\* The site serves exactly the sections 1..m: every page it has returned is
\* a usable one of 1..m, or an unusable (absent) one above m.
Serves(m) ==
    \A s \in 1..MaxSec :
        remote[s] # Unknown =>
            /\ s <= m => ~Unusable(remote[s].len)
            /\ s > m => Unusable(remote[s].len)

\* <<k+1, ..., m>>
Range(k, m) == [i \in 1..(m - k) |-> k + i]

Complete(n) ==
    /\ record.run = run
    /\ record.status = "complete"
    /\ record.total_pages = n
    /\ result = "true"

SequentialNext(k, m) ==
    \A s \in (k + 1)..(m - 1) : remote[s] # Unknown => remote[s].next = s + 1

Last(seq) == seq[Len(seq)]

\* C4: within a run visited only grows; the main loop never takes up an
\* address that is already in visited; and when the candidate is an address
\* already visited, the next step ends the walk and writes the record with
\* status complete, without any request.
C4_CycleTermination ==
    [][ /\ run' = run => visited_urls \subseteq visited_urls'
        /\ (run' = run /\ attempts' # attempts) =>
               /\ attempts' = Append(attempts, Last(attempts'))
               /\ Last(attempts').sec \notin visited_urls
               /\ Last(attempts').sec \in visited_urls'
        /\ (pc = "loop" /\ current_url \in visited_urls) =>
               /\ pc' = "done"
               /\ requests' = requests
               /\ attempts' = attempts
               /\ record' = [status |-> "complete", total_pages |-> total_pages,
                             errors |-> errors, run |-> run]
      ]_wvars

\* A walk that ended because the next control of the page just saved points
\* back to a visited address.
C4_Witness ==
    /\ pc = "done"
    /\ record.run = run /\ record.status = "complete"
    /\ consecutive_failures < max_consecutive_failures
    /\ attempts # <<>>
    /\ Last(attempts).how = "ok"
    /\ remote[Last(attempts).sec].next = current_url
    /\ current_url \in visited_urls
    /\ Cardinality(visited_urls) >= 2

\* Candidate fetches that failed since the last successful candidate fetch.
FailsInARow(seq) ==
    LET oks == {i \in DOMAIN seq : seq[i].how \in {"ok", "raise"}}
        from == IF oks = {} THEN 0 ELSE CHOOSE i \in oks : \A j \in oks : j <= i
    IN Cardinality({i \in DOMAIN seq : i > from /\ seq[i].how = "fail"})

\* Pages the walk has gathered: fetched and saved, or found persisted.
Gathered(seq) == Cardinality({i \in DOMAIN seq : seq[i].how \in {"ok", "skip"}})

\* C5: there are never more than five failed candidate fetches in a row; once
\* there are five, the next step ends the walk without a request, with a
\* record of status complete whose total_pages is the number of pages
\* gathered, and crawl_book returns True.
C5_FailureCeiling ==
    /\ [](FailsInARow(attempts) <= max_consecutive_failures)
    /\ [][ (pc = "loop" /\ FailsInARow(attempts) = max_consecutive_failures) =>
               /\ pc' = "done"
               /\ requests' = requests
               /\ attempts' = attempts
               /\ result' = "true"
               /\ record' = [status |-> "complete", total_pages |-> Gathered(attempts),
                             errors |-> errors, run |-> run]
         ]_wvars

C5_Witness ==
    /\ pc = "done"
    /\ FailsInARow(attempts) = max_consecutive_failures
    /\ Complete(2)
    /\ Len(saved) = 2

\* C6: a run that has ended has written a record for the document.
C6_EndsWithRecord ==
    pc \in {"done", "raised"} => record.run = run

\* The walk itself always ends (by returning or by raising, if the process is
\* not interrupted before).
WalkEnds == <>(pc \in {"done", "raised", "killed"})

\* C7: an exception raised during the walk leaves a record of status failed
\* written by that run.
C7_ExceptionLeavesFailedRecord ==
    pc = "raised" => (record.run = run /\ record.status = "failed")

\* ===================================================== claims on the pool

\* C8: the tally counts each yielded future exactly once, as completed iff
\* its crawl_book returned True and as failed otherwise (returned False, or
\* raised); the pool is never stuck before it is done, whatever the outcomes;
\* and it ends with every submitted document crawled and counted:
\* completed + failed = number of submitted DocumentIDs.
C8_PoolTally ==
    /\ completed = Cardinality({i \in yielded : futures[i] = "true"})
    /\ failed = Cardinality({i \in yielded : futures[i] \in {"false", "raised"}})
    /\ completed + failed = Cardinality(yielded)
    /\ ppc \in {"submit", "collect"} => ENABLED NextPool
    /\ ppc = "done" =>
           /\ \A i \in DOMAIN book_ids : futures[i] \in Outcomes
           /\ completed + failed = Len(book_ids)

C8_Witness ==
    /\ ppc = "done"
    /\ workers = 2
    /\ Len(book_ids) = 3
    /\ futures = <<"raised", "true", "false">>
    /\ completed = 1
    /\ failed = 2

\* ============================================ claims on the rate limiter

\* C9: while one thread sleeps its minimum-delay wait inside _rate_limit,
\* another thread that is at _rate_limit and whose own delay has elapsed (or
\* that has not issued a request yet) can pass it.
C9_WorkersDoNotSerialize ==
    \A a, b \in Threads :
        (a # b /\ rpc[a] = "sleep" /\ rpc[b] = "acquire" /\ DelayElapsed(b))
            => ENABLED AcquireLock(b)

\* C10: for each thread, at least Delay elapses between the end of one HTTP
\* request and the start of its next HTTP request.
C10_DelayAfterRequestEnd ==
    \A t \in Threads : gap[t] = NoGap \/ gap[t] >= Delay

\* What _rate_limit does keep: a thread stamps its requests at least Delay apart
\* (checked with the stamp it is about to overwrite).
StampsDelayApart ==
    \A t \in Threads :
        (rpc[t] = "stamp" /\ last_request_time[t] # Never)
            => now - last_request_time[t] >= Delay

\* ============================================ claims on the start and the walk

\* Section 1 as the site has served it is unusable (no body, or a body below
\* the threshold).
SectionOneUnusable ==
    /\ remote[1] # Unknown
    /\ (remote[1].len = NoneBody \/ remote[1].len < MinBody)

TocLinks == {toc.links[i] : i \in DOMAIN toc.links}

Lowest(S) == CHOOSE x \in S : \A y \in S : x <= y

\* C18: when section 1 is unusable and the table of contents has loaded with
\* links to sections of the document, the walk starts at the lowest section
\* index among those links, whatever their order in the page.
C18_StartsAtLowestTocLink ==
    (/\ SectionOneUnusable
     /\ toc.known /\ toc.ok /\ TocLinks # {}
     /\ pc = "loop" /\ attempts = <<>>)
        => current_url = Lowest(TocLinks)

\* The _fetch_url calls of the current run, in order.
RunRequests == SelectSeq(requests, LAMBDA r : r.run = run)

\* C19: when section 1 is unusable and the table of contents cannot be
\* fetched or holds no link to a section, the run is over right after the
\* TOC request: it has written a record of status failed with a non-empty
\* error log, returned False, persisted nothing and issued no request after
\* the one for the TOC; the pool counts a False return as failed.
C19_NoEntryPoint ==
    (/\ SectionOneUnusable
     /\ toc.known /\ (~toc.ok \/ toc.links = <<>>)
     /\ pc \notin {"start", "toc"})
        => /\ pc = "done"
           /\ result = "false"
           /\ record.run = run
           /\ record.status = "failed"
           /\ record.errors # <<>>
           /\ saved = <<>>
           /\ store = store0
           /\ Len(RunRequests) = 2
           /\ RunRequests[2].kind = "toc"
           /\ CountsFailed(result) /\ ~CountsCompleted(result)

C19_Witness ==
    /\ pc = "done"
    /\ SectionOneUnusable
    /\ toc.known /\ toc.ok /\ toc.links = <<>>
    /\ record = [status |-> "failed", total_pages |-> 0, errors |-> <<0>>, run |-> run]
    /\ result = "false"
    /\ Len(RunRequests) = 2

\* The document of sections 1..n: each page served is usable, 1..n-1 carry a
\* next control to the following section, n carries none, and a request for
\* section n+1 returns nothing usable (None from _fetch_url after a 404, or a
\* body below the threshold).
PlainDocument(n) ==
    /\ \A s \in 1..n :
           remote[s] # Unknown =>
               /\ remote[s].len >= MinBody
               /\ remote[s].next = (IF s < n THEN s + 1 ELSE NoNext)
    /\ n + 1 \in DOMAIN remote =>
           (remote[n + 1] # Unknown => remote[n + 1].len < MinBody)

\* C20: on an empty store and a document of sections 1..n, a run takes up
\* the addresses 1, 2, ... in this order, each fetched and persisted; once
\* it has returned it has visited exactly 1..n, persisted exactly those n
\* pages and written a record of status complete with total_pages = n.
C20_PlainWalk ==
    \A n \in 1..MaxSec :
        (store0 = {} /\ PlainDocument(n) /\ pc # "raised")
            => /\ Len(attempts) <= n
               /\ \A i \in DOMAIN attempts : attempts[i] = [sec |-> i, how |-> "ok"]
               /\ pc = "done" =>
                      /\ visited_urls = 1..n
                      /\ saved = Range(0, n)
                      /\ store = 1..n
                      /\ Complete(n)

C20_Witness ==
    /\ pc = "done"
    /\ store0 = {}
    /\ PlainDocument(MaxSec)
    /\ \A s \in 1..MaxSec : remote[s] # Unknown
    /\ (MaxSec + 1) \notin DOMAIN remote
    /\ Last(requests) = [run |-> run, sec |-> MaxSec + 1, kind |-> "probe", had |-> FALSE]
    /\ saved = Range(0, MaxSec)
    /\ Complete(MaxSec)

\* ======================================= claims on ShamelaHTTPClient.get

\* C11: for one client, at least self.delay elapses between the end of every
\* HTTP request and the start of the next one, whatever the outcome of the
\* earlier request, within a get call and from one get call to the next.
C11_GetDelayAfterRequestEnd ==
    ggap = NoGap \/ ggap >= self_delay

\* The response being handled carries a status of 400..499 other than 404.
ClientErrorResponse ==
    /\ gresponse.kind = "status"
    /\ 400 <= gresponse.code /\ gresponse.code <= 499
    /\ gresponse.code # 404

\* The call is over with the failure result, and the request that ended last
\* was followed by no wait.
EndedWithNone ==
    /\ gpc = "idle"
    /\ gret = "None"
    /\ sleeping = 0
    /\ Len(waits) = gsent - 1

\* C14: a response with a status in 400..499 other than 404, on any attempt,
\* ends the get call with the failure result: no backoff wait and no further
\* HTTP request in that call.
C14_ClientErrorEndsCall ==
    ClientErrorResponse => EndedWithNone

C14_Witness ==
    /\ gresponse = Status(499)
    /\ gattempt = 1
    /\ gsent = 2
    /\ gpc = "idle"
    /\ gret = "None"
    /\ waits = <<self_delay>>

\* C15: a 404 response to a get call with is_404_expected = False ends the
\* call with the failure result, without a further attempt.
C15_Unexpected404EndsCall ==
    (gresponse = Status(404) /\ ~is_404_expected) => EndedWithNone

\* C16: a 404 response to a get call with is_404_expected = True, on any
\* attempt, ends the call with None: no backoff wait, no further attempt;
\* on the first attempt the call has cost exactly one HTTP request.
C16_Expected404EndsCall ==
    (gresponse = Status(404) /\ is_404_expected) =>
        /\ EndedWithNone
        /\ gattempt = 0 => gsent = 1

C16_Witness ==
    /\ gresponse = Status(404)
    /\ is_404_expected
    /\ gattempt = 0
    /\ gsent = 1
    /\ gpc = "idle"
    /\ gret = "None"
    /\ waits = <<>>

\* The time the call has slept between its attempts i-1 and i (0-based) is
\* min(delay * 2^(i-1), max_backoff) once attempt i has started, the waits of
\* a call never decrease and never exceed max_backoff, and the attempt that
\* ends the call is followed by no wait.
WaitsAsComputed ==
    /\ \A i \in DOMAIN waits :
          /\ i < gsent => waits[i] = Min(self_delay * Pow2(i - 1), self_max_backoff)
          /\ waits[i] <= self_max_backoff
          /\ i > 1 => waits[i - 1] <= waits[i]
    /\ Len(waits) <= self_max_retries - 1
    /\ gpc = "idle" /\ gsent > 0 => Len(waits) = gsent - 1

\* C17 as stated: for every client, the wait between failed attempt i and
\* attempt i+1 is exactly min(delay * 2^i, max_backoff), the waits are
\* non-decreasing and never exceed max_backoff, and no wait follows the last
\* permitted attempt.
C17_BackoffAnyClient == WaitsAsComputed

\* C17 (amended): the same, for a client whose max_backoff is not below its
\* delay (otherwise the minimum delay before the next request adds to the wait).
C17_Backoff ==
    self_max_backoff >= self_delay => WaitsAsComputed

C17_Witness ==
    /\ self_delay = 2
    /\ self_max_backoff = 3
    /\ self_max_retries = 3
    /\ waits = <<2, 3>>
    /\ gsent = 3
    /\ gpc = "idle"
    /\ gret = "None"

\* ============================================== claims on both fetchers

\* An attempt of get failed by timeout, connection error or 5xx response.
GetTransientFailure ==
    \/ gresponse.kind \in {"Timeout", "ConnectionError"}
    \/ gresponse.kind = "status" /\ gresponse.code >= 500

GetPosition ==
    CASE gpc = "rate" -> 1
      [] gpc = "ratesleep" -> 2
      [] gpc = "send" -> 3
      [] gpc = "inflight" -> 4
      [] gpc = "backoff" -> 5
      [] OTHER -> 0

\* How far a get call has come: every step of the call takes it further.
GetRank == 6 * gattempt + GetPosition

RatePosition(t) ==
    CASE rpc[t] = "acquire" -> 1
      [] rpc[t] = "sleep" -> 2
      [] rpc[t] = "stamp" -> 3
      [] rpc[t] = "get" -> 4
      [] rpc[t] = "inflight" -> 5
      [] rpc[t] = "backoff" -> 6
      [] OTHER -> 0

\* How far a _fetch_url call has come.
RateRank(t) == 7 * attempt[t] + RatePosition(t)

GetBounded ==
    /\ gsent <= self_max_retries
    /\ gattempt < self_max_retries
    /\ gret \in {"none", "soup", "None"}
    /\ gret # "none" => (gpc = "idle" /\ gsent >= 1)
    /\ gret = "soup" <=> (gpc = "idle" /\ gresponse.kind = "status" /\ gresponse.code < 400)
    /\ GetTransientFailure =>
          IF gsent < self_max_retries
            THEN gpc = "backoff" /\ gret = "none"
            ELSE gpc = "idle" /\ gret = "None"
    /\ gpc \in {"rate", "send", "inflight"} => ENABLED GetStep
    /\ sleeping <= self_delay \/ sleeping <= self_max_backoff

FetchUrlBounded ==
    \A t \in Threads :
        /\ sent[t] <= max_retries
        /\ attempt[t] < max_retries
        /\ ret[t] \in {"none", "text", "None"}
        /\ ret[t] # "none" => (rpc[t] = "idle" /\ sent[t] >= 1)
        /\ ret[t] = "text" <=> (rpc[t] = "idle" /\ response[t] = "ok")
        /\ response[t] \in {"timeout", "connection", "5xx"} =>
              IF sent[t] < max_retries
                THEN rpc[t] = "backoff" /\ ret[t] = "none"
                ELSE rpc[t] = "idle" /\ ret[t] = "None"
        /\ rpc[t] \in {"stamp", "get", "inflight"} =>
              ENABLED (Stamp(t) \/ SendRequest(t) \/ ResponseOk(t) \/ ResponseError(t))
        /\ rpc[t] \in {"sleep", "backoff"} => wake[t] <= now + Pow2(max_retries)

\* C12: a fetch call (get, _fetch_url) issues at least one and at most
\* max_retries HTTP requests and every step takes it further towards its end;
\* an attempt failed by timeout, connection error or 5xx is followed by the
\* backoff before another attempt unless it was attempt number max_retries;
\* a successful response ends the call with its body; and once the attempts
\* are used up the call returns None.
C12_BoundedRetries ==
    /\ [](gpc # "off" => GetBounded)
    /\ []FetchUrlBounded
    /\ [][ /\ (gpc \notin {"off", "idle"} /\ <<gpc, gattempt>>' # <<gpc, gattempt>>)
               => (gpc' = "idle" \/ GetRank' > GetRank)
           /\ \A t \in Threads :
                 (rpc[t] \notin {"off", "idle"} /\ <<rpc[t], attempt[t]>>' # <<rpc[t], attempt[t]>>)
                     => (rpc'[t] = "idle" \/ RateRank(t)' > RateRank(t))
         ]_vars

\* A get call that used up its attempts on 5xx responses.
C12_Witness ==
    /\ gpc = "idle"
    /\ self_max_retries = MaxRetries
    /\ gsent = self_max_retries
    /\ gresponse = Status(500)
    /\ gret = "None"

\* A get call in progress ends.
GetCallEnds == (gpc # "idle") ~> (gpc = "idle")

\* C13: _fetch_url does not retry after a 4xx response: once a request has
\* ended with a 4xx status (404 or another), the call is over, with no
\* backoff wait and no further HTTP request.
C13_NoRetryAfterClientError ==
    \A t \in Threads :
        response[t] \in {"4xx", "404"} => (rpc[t] = "idle" /\ ret[t] = "None")

\* ================================================ claims on the walker steps

\* The body the site has served for section s (None for a section it does
\* not have).
BodyOf(rem, s) == IF s \in DOMAIN rem THEN rem[s].len ELSE NoneBody

\* The latest request of the run is the probe of section + 1, just answered.
ProbeAnswered ==
    /\ pc = "loop"
    /\ requests # <<>>
    /\ Last(requests).run = run
    /\ Last(requests).kind = "probe"

\* C25: the probe accepts an address as the next candidate if and only if
\* the body it got is one the main step counts as a success (a body of at
\* least 500 characters).
C25_ProbeAgreesWithMainStep ==
    ProbeAnswered =>
        LET s == Last(requests).sec
            L == BodyOf(remote, s)
        IN  (current_url = s) <=> (L # NoneBody /\ ~(L < MinBody))

\* C26: when the walk stops at the failure ceiling, the five candidates the
\* main loop attempted last all failed to fetch.
C26_CeilingOnlyAfterRun ==
    (pc = "loop" /\ consecutive_failures = max_consecutive_failures) =>
        /\ Len(attempts) >= max_consecutive_failures
        /\ \A i \in (Len(attempts) - max_consecutive_failures + 1)..Len(attempts) :
               attempts[i].how = "fail"

\* The main loop takes up its candidate.
TakesUp ==
    /\ pc = "loop"
    /\ current_url # NoUrl
    /\ current_url \notin visited_urls
    /\ consecutive_failures < max_consecutive_failures

\* C27: when the artifact of the candidate s exists, the walker step issues
\* no request, leaves the failure counter, the error log and the store as
\* they are, adds the candidate to visited, counts the page in total_pages
\* and makes section s+1 the next candidate.
C27_SkipStep ==
    [][ (TakesUp /\ current_url \in store) =>
            /\ requests' = requests
            /\ consecutive_failures' = consecutive_failures
            /\ errors' = errors
            /\ store' = store
            /\ saved' = saved
            /\ visited_urls' = visited_urls \cup {current_url}
            /\ total_pages' = total_pages + 1
            /\ current_url' = current_url + 1
            /\ pc' = "loop"
      ]_wvars

\* A skip between failures: the counter is what it was before the skip.
C27_Witness ==
    /\ pc = "loop"
    /\ Len(attempts) >= 2
    /\ Last(attempts).how = "skip"
    /\ attempts[Len(attempts) - 1].how = "fail"
    /\ consecutive_failures = 1
    /\ current_url = Last(attempts).sec + 1
    /\ Last(attempts).sec \in store

C29_FailureCounter ==
    /\ [](/\ consecutive_failures \in 0..max_consecutive_failures
          /\ consecutive_failures = FailsInARow(attempts)
          /\ (attempts # <<>> /\ Last(attempts).how = "ok") => consecutive_failures = 0)
    /\ [][ (consecutive_failures = max_consecutive_failures /\ run' = run) =>
               (attempts' = attempts /\ requests' = requests)
         ]_wvars

\* Failures, a success that resets the counter, and then five failures.
C29_Witness ==
    /\ pc = "done"
    /\ consecutive_failures = max_consecutive_failures
    /\ Len(attempts) >= max_consecutive_failures + 2
    /\ \E i, j \in DOMAIN attempts :
           i < j /\ attempts[i].how = "fail" /\ attempts[j].how = "ok"

\* ======================================= claims on the store and on reruns

\* C22: every page artifact of the store holds the complete body of a
\* successful fetch, also after an interruption, so that no run skips a
\* section whose stored page is empty or cut short.
C22_PersistedPagesComplete ==
    /\ partial = {}
    /\ \A i \in DOMAIN attempts :
           attempts[i].how = "skip" => attempts[i].sec \notin partial

\* C24: when the first run started from an empty store and returned, the
\* second run over the store it left, once it has returned, has written a
\* record with the same status and the same total_pages.
C24_RerunEquivalence ==
    (/\ run = 2 /\ pc = "done"
     /\ earlier[1].store0 = {} /\ earlier[1].how = "done")
        => /\ record.status = earlier[1].record.status
           /\ record.total_pages = earlier[1].record.total_pages

\* ============================================== claims on the pool's workers

\* The DocumentID a pool thread is crawling.
Crawling(w) == book_ids[running[w]]

\* C21: no two workers are ever inside crawl_book for the same DocumentID,
\* that is, writing the page artifacts and the record of the same document
\* directory at the same time.
C21_NoConcurrentWritersOfOneDocument ==
    \A v, w \in 1..workers :
        (v # w /\ running[v] # Idle /\ running[w] # Idle) => Crawling(v) # Crawling(w)

\* At most `workers` executions of crawl_book are in progress, and each of
\* them is run by one pool thread, which runs nothing else meanwhile.
AtMostWorkersAtOnce ==
    /\ Cardinality({i \in DOMAIN futures : futures[i] = "running"}) <= workers
    /\ \A i \in DOMAIN futures :
           futures[i] = "running" <=> (\E w \in 1..workers : running[w] = i)
    /\ \A v, w \in 1..workers :
           (v # w /\ running[v] # Idle) => running[v] # running[w]

\* C23: at most N executions of crawl_book are in progress, each worker runs
\* one at a time, and the pages of one document are requested by a single
\* worker: no other worker is crawling the same document meanwhile.
C23_OneWorkerPerDocument ==
    /\ AtMostWorkersAtOnce
    /\ \A v, w \in 1..workers :
           (v # w /\ running[v] # Idle /\ running[w] # Idle)
               => book_ids[running[v]] # book_ids[running[w]]

\* ============================================ claims on the next control

\* The anchor the claim names: the first button-classed anchor whose text is
\* exactly '>', with a non-empty href, not marked disabled.
FirstForwardButton ==
    LET hits == {i \in DOMAIN anchors :
                    /\ anchors[i].btn
                    /\ anchors[i].text = ">"
                    /\ anchors[i].href # NoHref /\ anchors[i].href # <<>>
                    /\ ~anchors[i].disabled}
    IN  IF hits = {} THEN NoButton ELSE CHOOSE i \in hits : \A j \in hits : i <= j

\* An href as an address of the site, without its fragment: an absolute one
\* as it is, a relative one under the site origin.
AddressOf(h) ==
    LET b == BeforeFragment(h)
    IN  IF b # <<>> /\ b[1] = Origin THEN b
        ELSE IF b # <<>> /\ b[1] = "/" THEN <<Origin>> \o b
        ELSE <<Origin, "/">> \o b

\* C30: after a successful fetch the next candidate is the address of the
\* first button-classed anchor with text '>', a non-empty href and no
\* disabled mark, resolved against the site origin if it is relative and
\* without its fragment; without such an anchor the page has no next control.
C30_NextControlSelection ==
    npc = "done" =>
        IF FirstForwardButton = NoButton
          THEN next_button = NoButton /\ next_url = ToProbe
          ELSE /\ next_button = FirstForwardButton
               /\ next_url = AddressOf(anchors[FirstForwardButton].href)

\* What the selection does keep: the anchor taken is button-classed, carries
\* a non-empty href and is not disabled, and is never a '>>' control; and the
\* candidate carries no fragment.
NeverLastPageOrDisabled ==
    (npc = "done" /\ next_button # NoButton) =>
        /\ anchors[next_button].btn
        /\ anchors[next_button].text # ">>"
        /\ ~anchors[next_button].disabled
        /\ anchors[next_button].href \notin {NoHref, <<>>}
        /\ \A i \in DOMAIN next_url : next_url[i] # "#"

\* ===================================== claims on the counts and the record

\* An iteration of the while loop has just ended, or the record has just been
\* written with status complete.
IterationBoundary ==
    \/ pc \in {"loop", "break"}
    \/ pc = "done" /\ status = "complete"

\* A whole iteration of the while loop: a skip, a failure or a saved page.
Iteration ==
    /\ run' = run
    /\ Len(attempts') = Len(attempts) + 1
    /\ Last(attempts').how # "raise"

\* C31: at every iteration boundary of the walk, and in the record written
\* with status complete, the number of visited addresses is total_pages plus
\* the number of error-log entries; every iteration adds its candidate, not
\* visited before, to the visited set and counts it as one page or as one
\* error, never both and never neither.
C31_VisitedIsPagesPlusErrors ==
    /\ [](IterationBoundary =>
            /\ Cardinality(visited_urls) = total_pages + Len(errors)
            /\ Cardinality(visited_urls) = Len(attempts)
            /\ (pc = "done" =>
                  /\ record.run = run
                  /\ record.status = "complete"
                  /\ Cardinality(visited_urls) = record.total_pages + Len(record.errors)))
    /\ [][Iteration =>
            /\ current_url \notin visited_urls
            /\ visited_urls' = visited_urls \cup {current_url}
            /\ \/ total_pages' = total_pages + 1 /\ errors' = errors
               \/ total_pages' = total_pages /\ Len(errors') = Len(errors) + 1]_wvars

\* A walk that skipped a page, failed on one and saved one has ended with a
\* complete record.
C31_Witness ==
    /\ pc = "done"
    /\ record.run = run /\ record.status = "complete"
    /\ \E i \in DOMAIN attempts : attempts[i].how = "skip"
    /\ \E i \in DOMAIN attempts : attempts[i].how = "fail"
    /\ \E i \in DOMAIN attempts : attempts[i].how = "ok"

\* C32: when crawl_book writes a record with status complete, whatever the
\* store held at the start, total_pages of the record is the number of page
\* artifacts in the store of the document.
C32_TotalPagesIsArtifactCount ==
    (pc = "done" /\ record.run = run /\ record.status = "complete")
        => record.total_pages = Cardinality(store)

\* Start discovery failed: section 1 was unusable, and the TOC could not be
\* fetched or held no section link.
StartDiscoveryFailed ==
    /\ Unusable(BodyOf(remote, 1))
    /\ toc.known
    /\ ~toc.ok \/ toc.links = <<>>

\* C33: every record crawl_book writes has status complete or failed, never
\* in_progress; crawl_book returns True exactly when the record it wrote has
\* status complete and False exactly when it has status failed; and failed is
\* written only when start discovery failed.
C33_RecordStatusAndReturn ==
    /\ [](/\ record # NoRecord => record.status \in {"complete", "failed"}
          /\ result = "true" <=> (record.run = run /\ record.status = "complete")
          /\ result = "false" <=> (record.run = run /\ record.status = "failed")
          /\ (record.run = run /\ record.status = "failed") => StartDiscoveryFailed)
    /\ [][record' # record =>
            /\ record'.run = run
            /\ record'.status \in {"complete", "failed"}
            /\ record'.status = "complete" <=> result' = "true"
            /\ record'.status = "failed" <=> result' = "false"]_wvars

\* A run whose section 1 is unusable and whose TOC holds no section link has
\* written a failed record and returned False.
C33_Witness ==
    /\ pc = "done"
    /\ result = "false"
    /\ record.run = run /\ record.status = "failed"
    /\ toc.ok /\ toc.links = <<>>

====
